---------------------------- MODULE Spec2Model ----------------------------
(***************************************************************************)
(* Financial news classifier: the retry protocol of the model client       *)
(* (_call_ollama), the response normalizers (_parse_json_response,         *)
(* _normalize_category, _normalize_sentiment) and the orchestrator         *)
(* (analyze_news) of src/src/classifier.py.                                *)
(*                                                                         *)
(* Text is a sequence of one-character strings, so that searching,         *)
(* stripping, lower-casing and JSON parsing are computed, not assumed.     *)
(* Floats are exact decimals counted in thousandths (0.92 is 920).         *)
(***************************************************************************)
EXTENDS Integers, Sequences, FiniteSets, TLC

(***************************************************************************)
(* Characters and Python's str operations                                  *)
(***************************************************************************)
Q == "\""

Whitespace == {" ", "\n", "\t"}

Digits == <<"0", "1", "2", "3", "4", "5", "6", "7", "8", "9">>

DigitChars == {Digits[i] : i \in 1..10}

UpperCase == <<"A", "B", "C", "D", "E", "F", "G", "H", "I", "J", "K", "L", "M",
               "N", "O", "P", "Q", "R", "S", "T", "U", "V", "W", "X", "Y", "Z">>

LowerCase == <<"a", "b", "c", "d", "e", "f", "g", "h", "i", "j", "k", "l", "m",
               "n", "o", "p", "q", "r", "s", "t", "u", "v", "w", "x", "y", "z">>

Min(a, b) == IF a <= b THEN a ELSE b

\* str.lower()
lower(s) ==
    [i \in 1..Len(s) |->
        IF \E k \in 1..26 : UpperCase[k] = s[i]
        THEN LowerCase[CHOOSE k \in 1..26 : UpperCase[k] = s[i]]
        ELSE s[i]]

\* str.strip()
strip(s) ==
    LET keep == {i \in 1..Len(s) : s[i] \notin Whitespace}
    IN  IF keep = {} THEN <<>>
        ELSE SubSeq(s, CHOOSE i \in keep : \A j \in keep : i <= j,
                       CHOOSE i \in keep : \A j \in keep : j <= i)

\* key in s
Contains(s, key) ==
    \E i \in 1..(Len(s) - Len(key) + 1) : SubSeq(s, i, i + Len(key) - 1) = key

\* The value of a run of decimal digits.
RECURSIVE NatOf(_)
NatOf(ds) ==
    IF ds = <<>> THEN 0
    ELSE 10 * NatOf(SubSeq(ds, 1, Len(ds) - 1))
         + (CHOOSE d \in 0..9 : Digits[d + 1] = ds[Len(ds)])

\* The first position at or after i of s that holds no digit (Len(s)+1 if none).
RECURSIVE DigitsEnd(_, _)
DigitsEnd(s, i) ==
    IF i <= Len(s) /\ s[i] \in DigitChars THEN DigitsEnd(s, i + 1) ELSE i

\* A fraction's digits as thousandths: "92" is 920, "5" is 500.
FracThousandths(ds) ==
    LET f == SubSeq(ds, 1, Min(3, Len(ds)))
    IN  NatOf(f) * (CASE Len(f) = 0 -> 1000 [] Len(f) = 1 -> 100
                      [] Len(f) = 2 -> 10 [] OTHER -> 1)

(***************************************************************************)
(* Python values: None, bool, int, float (thousandths) and str             *)
(***************************************************************************)
None == [t |-> "null", n |-> 0, s |-> <<>>]

JBool(b) == [t |-> "bool", n |-> IF b THEN 1 ELSE 0, s |-> <<>>]

JInt(n) == [t |-> "int", n |-> n, s |-> <<>>]

JFloat(th) == [t |-> "float", n |-> th, s |-> <<>>]

JStr(s) == [t |-> "str", n |-> 0, s |-> s]

\* bool(v): None, False, 0, 0.0 and "" are falsy.
Truthy(v) ==
    CASE v.t = "null" -> FALSE
      [] v.t = "str" -> v.s # <<>>
      [] OTHER -> v.n # 0

\* v == k for an int literal k (True == 1 and 1.0 == 1 in Python).
EqualsInt(v, k) ==
    CASE v.t \in {"int", "bool"} -> v.n = k
      [] v.t = "float" -> v.n = 1000 * k
      [] OTHER -> FALSE

\* float(str): optional sign, digits with an optional fraction, blanks around.
FloatOfStr(s0) ==
    LET s    == strip(s0)
        neg  == s # <<>> /\ s[1] = "-"
        i0   == IF s # <<>> /\ s[1] \in {"-", "+"} THEN 2 ELSE 1
        i1   == DigitsEnd(s, i0)
        dot  == i1 <= Len(s) /\ s[i1] = "."
        i2   == IF dot THEN DigitsEnd(s, i1 + 1) ELSE i1
        int  == SubSeq(s, i0, i1 - 1)
        frac == IF dot THEN SubSeq(s, i1 + 1, i2 - 1) ELSE <<>>
        mag  == 1000 * NatOf(int) + (IF frac = <<>> THEN 0 ELSE FracThousandths(frac))
    IN  IF i2 = Len(s) + 1 /\ (int # <<>> \/ frac # <<>>)
        THEN [exc |-> FALSE, val |-> IF neg THEN 0 - mag ELSE mag]
        ELSE [exc |-> TRUE, val |-> 0]

\* float(v): raises TypeError on None and ValueError on a string that is no number.
float(v) ==
    CASE v.t = "null" -> [exc |-> TRUE, val |-> 0]
      [] v.t = "str" -> FloatOfStr(v.s)
      [] v.t = "float" -> [exc |-> FALSE, val |-> v.n]
      [] OTHER -> [exc |-> FALSE, val |-> 1000 * v.n]

(***************************************************************************)
(* json.loads on one brace-delimited match                                 *)
(***************************************************************************)
EmptyDict == [k \in {} |-> None]

JsonError == [ok |-> FALSE, val |-> EmptyDict]

RECURSIVE SkipWs(_, _)
SkipWs(s, i) ==
    IF i <= Len(s) /\ s[i] \in Whitespace THEN SkipWs(s, i + 1) ELSE i

\* A string starting at the quote s[i]: no escapes, no raw control characters.
ParseString(s, i) ==
    LET ends == {j \in (i + 1)..Len(s) : s[j] = Q}
    IN  IF ends = {} THEN [ok |-> FALSE, val |-> None, next |-> i]
        ELSE LET j == CHOOSE e \in ends : \A f \in ends : e <= f
                 body == SubSeq(s, i + 1, j - 1)
             IN  IF \E p \in 1..Len(body) : body[p] \in {"\n", "\t", "\\"}
                 THEN [ok |-> FALSE, val |-> None, next |-> i]
                 ELSE [ok |-> TRUE, val |-> JStr(body), next |-> j + 1]

\* -?(0|[1-9][0-9]*)(\.[0-9]+)? starting at s[i]
ParseNumber(s, i) ==
    LET neg  == s[i] = "-"
        i0   == IF neg THEN i + 1 ELSE i
        iEnd == DigitsEnd(s, i0)
        i1   == IF i0 <= Len(s) /\ s[i0] = "0" THEN i0 + 1 ELSE iEnd
        dot  == i1 + 1 <= Len(s) /\ s[i1] = "." /\ s[i1 + 1] \in DigitChars
        i2   == IF dot THEN DigitsEnd(s, i1 + 1) ELSE i1
        int  == NatOf(SubSeq(s, i0, i1 - 1))
        mag  == 1000 * int + FracThousandths(SubSeq(s, i1 + 1, i2 - 1))
    IN  IF i1 = i0 THEN [ok |-> FALSE, val |-> None, next |-> i]
        ELSE IF dot
        THEN [ok |-> TRUE, val |-> JFloat(IF neg THEN 0 - mag ELSE mag), next |-> i2]
        ELSE [ok |-> TRUE, val |-> JInt(IF neg THEN 0 - int ELSE int), next |-> i1]

StartsAt(s, i, word) ==
    i + Len(word) - 1 <= Len(s) /\ SubSeq(s, i, i + Len(word) - 1) = word

ParseValue(s, i) ==
    CASE i > Len(s) -> [ok |-> FALSE, val |-> None, next |-> i]
      [] s[i] = Q -> ParseString(s, i)
      [] s[i] \in DigitChars \cup {"-"} -> ParseNumber(s, i)
      [] StartsAt(s, i, <<"t", "r", "u", "e">>) ->
            [ok |-> TRUE, val |-> JBool(TRUE), next |-> i + 4]
      [] StartsAt(s, i, <<"f", "a", "l", "s", "e">>) ->
            [ok |-> TRUE, val |-> JBool(FALSE), next |-> i + 5]
      [] StartsAt(s, i, <<"n", "u", "l", "l">>) ->
            [ok |-> TRUE, val |-> None, next |-> i + 4]
      [] OTHER -> [ok |-> FALSE, val |-> None, next |-> i]

\* The members of an object from position i on: a later key replaces an earlier one.
RECURSIVE ParseMembers(_, _, _)
ParseMembers(s, i, acc) ==
    IF i > Len(s) \/ s[i] # Q THEN JsonError
    ELSE LET k == ParseString(s, i)
             c == SkipWs(s, k.next)
         IN  IF ~k.ok \/ c > Len(s) \/ s[c] # ":" THEN JsonError
             ELSE LET v == ParseValue(s, SkipWs(s, c + 1))
                      e == SkipWs(s, v.next)
                      acc2 == (k.val.s :> v.val) @@ acc
                  IN  IF ~v.ok \/ e > Len(s) THEN JsonError
                      ELSE IF s[e] = "}" THEN [ok |-> e = Len(s), val |-> acc2]
                      ELSE IF s[e] = "," THEN ParseMembers(s, SkipWs(s, e + 1), acc2)
                      ELSE JsonError

\* json.loads(m) for m = "{" ... "}" holding no other brace
json_loads(m) ==
    LET i == SkipWs(m, 2)
    IN  IF m[i] = "}" THEN [ok |-> TRUE, val |-> EmptyDict]
        ELSE ParseMembers(m, i, EmptyDict)

(***************************************************************************)
(* models.py and config.py                                                 *)
(***************************************************************************)
\* list(NewsCategory), in declaration order
NewsCategory ==
    <<"oil_and_gas", "agriculture", "housing", "banking", "stock_market",
      "cryptocurrency", "forex", "commodities", "others">>

OTHERS == NewsCategory[9]

SentimentType == <<"positive", "negative", "neutral">>

POSITIVE == SentimentType[1]

NEGATIVE == SentimentType[2]

NEUTRAL == SentimentType[3]

MAX_RETRIES == 3

RETRY_DELAY == 2

\* 0.7, in thousandths
CONFIDENCE_THRESHOLD == 700

(***************************************************************************)
(* The response normalizers                                                *)
(***************************************************************************)
K_category_number == <<"c", "a", "t", "e", "g", "o", "r", "y", "_", "n", "u", "m", "b", "e", "r">>

K_sentiment_number == <<"s", "e", "n", "t", "i", "m", "e", "n", "t", "_", "n", "u", "m", "b", "e", "r">>

K_confidence == <<"c", "o", "n", "f", "i", "d", "e", "n", "c", "e">>

\* category_mapping, in insertion order: key, (category, confidence)
category_mapping ==
    << [key |-> <<"s", "t", "o", "c", "k">>, category |-> "stock_market", conf |-> 800],
       [key |-> <<"e", "q", "u", "i", "t", "y">>, category |-> "stock_market", conf |-> 800],
       [key |-> <<"o", "i", "l">>, category |-> "oil_and_gas", conf |-> 800],
       [key |-> <<"g", "a", "s">>, category |-> "oil_and_gas", conf |-> 800],
       [key |-> <<"b", "a", "n", "k">>, category |-> "banking", conf |-> 800],
       [key |-> <<"c", "r", "y", "p", "t", "o">>, category |-> "cryptocurrency", conf |-> 800],
       [key |-> <<"f", "o", "r", "e", "x">>, category |-> "forex", conf |-> 800],
       [key |-> <<"c", "o", "m", "m", "o", "d", "i", "t", "y">>, category |-> "commodities", conf |-> 800],
       [key |-> <<"a", "g", "r", "i", "c", "u", "l", "t", "u", "r", "e">>, category |-> "agriculture", conf |-> 800],
       [key |-> <<"h", "o", "u", "s", "i", "n", "g">>, category |-> "housing", conf |-> 800] >>

positive_words ==
    { <<"p", "o", "s", "i", "t", "i", "v", "e">>,
      <<"g", "r", "o", "w", "t", "h">>,
      <<"p", "r", "o", "f", "i", "t">>,
      <<"s", "u", "c", "c", "e", "s", "s">> }

negative_words ==
    { <<"n", "e", "g", "a", "t", "i", "v", "e">>,
      <<"d", "e", "c", "l", "i", "n", "e">>,
      <<"l", "o", "s", "s">>,
      <<"f", "a", "i", "l">> }

\* re.findall(r'\{[^{}]*\}', response): the leftmost match, if any
first_match(response) ==
    LET braces(i) == {j \in (i + 1)..Len(response) : response[j] \in {"{", "}"}}
        close(i)  == CHOOSE j \in braces(i) : \A k \in braces(i) : j <= k
        starts    == {i \in 1..Len(response) :
                        /\ response[i] = "{"
                        /\ braces(i) # {}
                        /\ response[close(i)] = "}"}
    IN  IF starts = {} THEN [found |-> FALSE, text |-> <<>>]
        ELSE LET i == CHOOSE a \in starts : \A b \in starts : a <= b
             IN  [found |-> TRUE, text |-> SubSeq(response, i, close(i))]

\* A failure of json.loads is caught and logged: the result is then {}.
loaded_or_empty(loaded) == IF loaded.ok THEN loaded.val ELSE EmptyDict

\* if matches: return json.loads(matches[0])
loads_first(m) == IF m.found THEN loaded_or_empty(json_loads(m.text)) ELSE EmptyDict

_parse_json_response(response) == loads_first(first_match(response))

\* dict.get(key, default)
get(d, key, default) == IF key \in DOMAIN d THEN d[key] ELSE default

Raised == [exc |-> TRUE, label |-> "", conf |-> 0]

Returned(label, conf) == [exc |-> FALSE, label |-> label, conf |-> conf]

\* A fallback that lets the last matching key of the table win.
category_fallback_last(response0) ==
    LET response == strip(lower(response0))
        hits == {i \in 1..Len(category_mapping) :
                    Contains(response, category_mapping[i].key)}
    IN  IF hits # {}
        THEN LET i == CHOOSE a \in hits : \A b \in hits : b <= a
             IN  Returned(category_mapping[i].category, category_mapping[i].conf)
        ELSE Returned(OTHERS, 500)

\* The fallback to text analysis of _normalize_category.
category_fallback(response0) ==
    LET response == strip(lower(response0))
        hits == {i \in 1..Len(category_mapping) :
                    Contains(response, category_mapping[i].key)}
    IN  IF hits # {}
        THEN LET i == CHOOSE a \in hits : \A b \in hits : a <= b
             IN  Returned(category_mapping[i].category, category_mapping[i].conf)
        ELSE Returned(OTHERS, 500)

\* A range test that leaves the last ordinal out.
InRange_exclusive(v, k) ==
    IF v.t = "float" THEN 1000 <= v.n /\ v.n < 1000 * k
    ELSE 1 <= v.n /\ v.n < k

\* 1 <= v <= k for an int k, on a number (a float is counted in thousandths)
InRange(v, k) ==
    IF v.t = "float" THEN 1000 <= v.n /\ v.n <= 1000 * k
    ELSE 1 <= v.n /\ v.n <= k

\* The number-based category selection, then the fallback, given the two values
\* read from the parsed object (confidence is float(...)'s outcome).
category_select(response, category_num, confidence) ==
    IF confidence.exc THEN Raised
    ELSE IF Truthy(category_num)
    THEN \* 1 <= category_num <= len(categories): a str raises TypeError
         IF category_num.t = "str" THEN Raised
         ELSE IF InRange(category_num, Len(NewsCategory))
         THEN \* categories[category_num-1]: a float index raises TypeError
              IF category_num.t = "float" THEN Raised
              ELSE Returned(NewsCategory[category_num.n], confidence.val)
         ELSE category_fallback(response)
    ELSE category_fallback(response)

\* category_num = result.get('category_number')
\* confidence = float(result.get('confidence', 0))
category_of(response, result) ==
    category_select(response, get(result, K_category_number, None),
                    float(get(result, K_confidence, JInt(0))))

\* The try block of _normalize_category: exc when a statement of it raises.
normalize_category_try(response) ==
    category_of(response, _parse_json_response(response))

\* No except clause: what the try block raised escapes.
category_propagate(r) == [label |-> r.label, conf |-> r.conf]

\* except Exception: return NewsCategory.OTHERS.value, 0.0
category_except(r) ==
    IF r.exc THEN [label |-> OTHERS, conf |-> 0]
    ELSE [label |-> r.label, conf |-> r.conf]

_normalize_category(response) == category_except(normalize_category_try(response))

\* A fallback whose default confidence is that of the category fallback.
sentiment_fallback_half(response0) ==
    LET response == strip(lower(response0))
    IN  IF \E word \in positive_words : Contains(response, word)
        THEN Returned(POSITIVE, 800)
        ELSE IF \E word \in negative_words : Contains(response, word)
        THEN Returned(NEGATIVE, 800)
        ELSE Returned(NEUTRAL, 500)

\* The fallback to text analysis of _normalize_sentiment.
sentiment_fallback(response0) ==
    LET response == strip(lower(response0))
    IN  IF \E word \in positive_words : Contains(response, word)
        THEN Returned(POSITIVE, 800)
        ELSE IF \E word \in negative_words : Contains(response, word)
        THEN Returned(NEGATIVE, 800)
        ELSE Returned(NEUTRAL, 600)

\* The number-based sentiment selection, then the fallback.
sentiment_select(response, sentiment_num, confidence) ==
    IF confidence.exc THEN Raised
    ELSE IF Truthy(sentiment_num)
    THEN IF EqualsInt(sentiment_num, 1) THEN Returned(POSITIVE, confidence.val)
         ELSE IF EqualsInt(sentiment_num, 2) THEN Returned(NEGATIVE, confidence.val)
         ELSE Returned(NEUTRAL, confidence.val)
    ELSE sentiment_fallback(response)

\* sentiment_num = result.get('sentiment_number')
\* confidence = float(result.get('confidence', 0))
sentiment_of(response, result) ==
    sentiment_select(response, get(result, K_sentiment_number, None),
                     float(get(result, K_confidence, JInt(0))))

\* The try block of _normalize_sentiment.
normalize_sentiment_try(response) ==
    sentiment_of(response, _parse_json_response(response))

\* except Exception: return SentimentType.NEUTRAL.value, 0.0
sentiment_except(r) ==
    IF r.exc THEN [label |-> NEUTRAL, conf |-> 0]
    ELSE [label |-> r.label, conf |-> r.conf]

_normalize_sentiment(response) == sentiment_except(normalize_sentiment_try(response))

(***************************************************************************)
(* The inputs: article texts and the replies of the text-generation service *)
(***************************************************************************)
\* the empty string
A_empty ==
        <<>>

\* 1 blank character(s)
A_blank ==
        <<" ">>

\*  \n\t
A_blanks ==
        <<" ", "\n", "\t">>

\*  Oil up\n
A_oil ==
        <<" ", "O", "i", "l", " ", "u", "p", "\n">>

\* Bank
A_bank ==
        <<"B", "a", "n", "k">>

\* 0.92
V_092 ==
        <<"0", ".", "9", "2">>

\* 0.48
V_048 ==
        <<"0", ".", "4", "8">>

\* 1
V_one ==
        <<"1">>

\* 1.5
V_15 ==
        <<"1", ".", "5">>

\* -0.5
V_neg ==
        <<"-", "0", ".", "5">>

\* "0.92"
V_str092 ==
        <<Q, "0", ".", "9", "2", Q>>

\* "high"
V_high ==
        <<Q, "h", "i", "g", "h", Q>>

\* null
V_null ==
        <<"n", "u", "l", "l">>

\* true
V_true ==
        <<"t", "r", "u", "e">>

\* false
V_false ==
        <<"f", "a", "l", "s", "e">>

\* "5"
V_str5 ==
        <<Q, "5", Q>>

\* 5.0
V_50 ==
        <<"5", ".", "0">>

\* -1
V_minus1 ==
        <<"-", "1">>

\* 0.5
V_05 ==
        <<"0", ".", "5">>

\* ""
V_strEmpty ==
        <<Q, Q>>

\* 1.0
V_10 ==
        <<"1", ".", "0">>

\* the empty string
T_empty ==
        <<>>

\*   \n
T_blank ==
        <<" ", " ", "\n">>

\* I am not sure
T_unclear ==
        <<"I", " ", "a", "m", " ", "n", "o", "t", " ", "s", "u", "r", "e">>

\* 5. Discussing oil and gas markets
T_discussing ==
        <<"5", ".", " ", "D", "i", "s", "c", "u", "s", "s", "i", "n", "g", " ", "o",
          "i", "l", " ", "a", "n", "d", " ", "g", "a", "s", " ", "m", "a", "r", "k",
          "e", "t", "s">>

\* 1. gas or equity
T_gas_equity ==
        <<"1", ".", " ", "g", "a", "s", " ", "o", "r", " ", "e", "q", "u", "i", "t", "y">>

\* Category: 3
T_category3 ==
        <<"C", "a", "t", "e", "g", "o", "r", "y", ":", " ", "3">>

\* 12 is my answer
T_answer12 ==
        <<"1", "2", " ", "i", "s", " ", "m", "y", " ", "a", "n", "s", "w", "e", "r">>

\* Oil prices
T_Oil ==
        <<"O", "i", "l", " ", "p", "r", "i", "c", "e", "s">>

\* STOCK market
T_STOCK ==
        <<"S", "T", "O", "C", "K", " ", "m", "a", "r", "k", "e", "t">>

\* oil and equity
T_equity_oil ==
        <<"o", "i", "l", " ", "a", "n", "d", " ", "e", "q", "u", "i", "t", "y">>

\* Banking and housing
T_banking ==
        <<"B", "a", "n", "k", "i", "n", "g", " ", "a", "n", "d", " ", "h", "o", "u",
          "s", "i", "n", "g">>

\* crypto
T_crypto ==
        <<"c", "r", "y", "p", "t", "o">>

\* the forex desk
T_forex ==
        <<"t", "h", "e", " ", "f", "o", "r", "e", "x", " ", "d", "e", "s", "k">>

\* commodity
T_commodity ==
        <<"c", "o", "m", "m", "o", "d", "i", "t", "y">>

\* agriculture
T_agriculture ==
        <<"a", "g", "r", "i", "c", "u", "l", "t", "u", "r", "e">>

\* housing
T_housing ==
        <<"h", "o", "u", "s", "i", "n", "g">>

\* Positive
T_positive ==
        <<"P", "o", "s", "i", "t", "i", "v", "e">>

\* a loss after growth
T_growth_loss ==
        <<"a", " ", "l", "o", "s", "s", " ", "a", "f", "t", "e", "r", " ", "g", "r",
          "o", "w", "t", "h">>

\* failure
T_failure ==
        <<"f", "a", "i", "l", "u", "r", "e">>

\* prices decline
T_decline ==
        <<"p", "r", "i", "c", "e", "s", " ", "d", "e", "c", "l", "i", "n", "e">>

\* neutral
T_neutral ==
        <<"n", "e", "u", "t", "r", "a", "l">>

\* Sure! 
T_sure ==
        <<"S", "u", "r", "e", "!", " ">>

\*  about oil profit
T_about_oil ==
        <<" ", "a", "b", "o", "u", "t", " ", "o", "i", "l", " ", "p", "r", "o", "f",
          "i", "t">>

\*  \n
T_pad ==
        <<" ", "\n">>

\* {category_number: }
T_bad_key ==
        <<"{", "c", "a", "t", "e", "g", "o", "r", "y", "_", "n", "u", "m", "b", "e",
          "r", ":", " ", "}">>

\* {
T_open ==
        <<"{">>

\* }{
T_closed_open ==
        <<"}", "{">>

\* {"category_number": 5
T_no_close ==
        <<"{", Q, "c", "a", "t", "e", "g", "o", "r", "y", "_", "n", "u", "m", "b", "e",
          "r", Q, ":", " ", "5">>

\* {"category_number": 5,}
T_trailing_comma ==
        <<"{", Q, "c", "a", "t", "e", "g", "o", "r", "y", "_", "n", "u", "m", "b", "e",
          "r", Q, ":", " ", "5", ",", "}">>

\* {"result": {"category_number": 3}}
T_nested ==
        <<"{", Q, "r", "e", "s", "u", "l", "t", Q, ":", " ", "{", Q, "c", "a", "t",
          "e", "g", "o", "r", "y", "_", "n", "u", "m", "b", "e", "r", Q, ":", " ", "3",
          "}", "}">>

\* {} {"category_number": 5}
T_empty_obj_first ==
        <<"{", "}", " ", "{", Q, "c", "a", "t", "e", "g", "o", "r", "y", "_", "n", "u",
          "m", "b", "e", "r", Q, ":", " ", "5", "}">>

\* {"category_number": 5, "category_number": 7}
T_twice ==
        <<"{", Q, "c", "a", "t", "e", "g", "o", "r", "y", "_", "n", "u", "m", "b", "e",
          "r", Q, ":", " ", "5", ",", " ", Q, "c", "a", "t", "e", "g", "o", "r", "y",
          "_", "n", "u", "m", "b", "e", "r", Q, ":", " ", "7", "}">>

\* {sentiment_number: }
T_sent_bad_key ==
        <<"{", "s", "e", "n", "t", "i", "m", "e", "n", "t", "_", "n", "u", "m", "b",
          "e", "r", ":", " ", "}">>

\* {"result": {"sentiment_number": 2}}
T_sent_nested ==
        <<"{", Q, "r", "e", "s", "u", "l", "t", Q, ":", " ", "{", Q, "s", "e", "n",
          "t", "i", "m", "e", "n", "t", "_", "n", "u", "m", "b", "e", "r", Q, ":", " ",
          "2", "}", "}">>

\* The largest ordinal a reply names: 0..MaxOrdinal covers the 9 categories, 0 and
\* numbers past the end of the enumeration.
MaxOrdinal == 10

\* The largest sentiment ordinal a reply names.
MaxSentiment == 4

Articles == {A_empty, A_blank, A_blanks, A_oil, A_bank}

\* The decimal digits of n >= 0.
RECURSIVE NumText(_)
NumText(n) ==
    IF n < 10 THEN <<Digits[n + 1]>>
    ELSE NumText(n \div 10) \o <<Digits[(n % 10) + 1]>>

\* {"key": value}
Obj1(key, value) ==
    <<"{", Q>> \o key \o <<Q, ":", " ">> \o value \o <<"}">>

\* {"key": value, "confidence": conf}
Obj2(key, value, conf) ==
    <<"{", Q>> \o key \o <<Q, ":", " ">> \o value \o <<",", " ", Q>>
        \o K_confidence \o <<Q, ":", " ">> \o conf \o <<"}">>

ConfTexts ==
    {V_092, V_048, V_one, V_15, V_neg, V_str092, V_high, V_null, V_true}

OddNumbers ==
    {V_str5, V_50, V_true, V_false, V_null, V_minus1, V_05, V_strEmpty, V_10}

\* Replies with no digit, no brace and no keyword of either table.
PlainTexts == {T_empty, T_unclear, T_neutral}

CategoryTexts ==
    {T_discussing, T_category3, T_answer12, T_Oil, T_STOCK, T_equity_oil, T_banking,
     T_crypto, T_forex, T_commodity, T_agriculture, T_housing}

SentimentTexts ==
    {T_positive, T_growth_loss, T_failure, T_decline, T_about_oil}

MalformedCategory ==
    {T_bad_key, T_open, T_closed_open, T_no_close, T_trailing_comma, T_nested,
     T_empty_obj_first, T_twice}

MalformedSentiment == {T_sent_bad_key, T_open, T_sent_nested}

\* What the service may answer to a category prompt.
CategoryReplies ==
    {Obj2(K_category_number, NumText(n), V_092) : n \in 0..MaxOrdinal}
    \cup {Obj1(K_category_number, NumText(n)) : n \in 0..MaxOrdinal}
    \cup {Obj2(K_category_number, NumText(5), c) : c \in ConfTexts}
    \cup {Obj2(K_category_number, x, V_092) : x \in OddNumbers}
    \cup {NumText(n) : n \in 0..MaxOrdinal}
    \cup PlainTexts \cup CategoryTexts \cup MalformedCategory
    \cup {T_sure \o Obj2(K_category_number, NumText(5), V_092) \o T_about_oil,
          T_pad \o Obj2(K_category_number, NumText(2), V_048) \o T_pad,
          T_blank,
          Obj1(K_confidence, V_high) \o T_Oil,
          Obj1(K_confidence, V_high),
          Obj1(K_category_number, V_true),
          T_gas_equity,
          Obj2(K_sentiment_number, NumText(1), V_092)}

\* What the service may answer to a sentiment prompt.
SentimentReplies ==
    {Obj2(K_sentiment_number, NumText(n), V_092) : n \in 0..MaxSentiment}
    \cup {Obj1(K_sentiment_number, NumText(n)) : n \in 1..2}
    \cup {Obj2(K_sentiment_number, NumText(1), c) : c \in ConfTexts}
    \cup {Obj2(K_sentiment_number, x, V_092) : x \in {V_str5, V_10, V_null, V_true}}
    \cup {NumText(2)}
    \cup PlainTexts \cup SentimentTexts \cup MalformedSentiment
    \cup {T_sure \o Obj2(K_sentiment_number, NumText(2), V_048) \o T_about_oil,
          Obj1(K_confidence, V_high) \o T_positive,
          Obj1(K_confidence, V_high),
          Obj1(K_sentiment_number, V_true),
          Obj2(K_category_number, NumText(5), V_092)}

(***************************************************************************)
(* The state of one classifier: analyze_news and the _call_ollama it runs  *)
(***************************************************************************)
VARIABLES
    pc,                 \* "idle", "category", "got_category" or "sentiment"
    article,            \* the argument of the current (or last) analyze_news call
    news_text,          \* the stripped article
    calls,              \* the prompts handed to _call_ollama by this analyze_news
    attempt,            \* the loop variable of the running _call_ollama
    log,                \* the requests and sleeps of the current (or last) _call_ollama
    elapsed,            \* seconds slept since start_time
    category_response,  \* what _call_ollama returned for the category prompt
    sentiment_response, \* what _call_ollama returned for the sentiment prompt
    norm,               \* the locals set by the normalizers, if they ran
    result,             \* the NewsAnalysis returned by the last analyze_news
    batch,              \* process_dataframe: "none", "loop", "analyze", "returned", "raised"
    df,                 \* the Article column of the input table, in row order
    idx,                \* the rows the loop of process_dataframe has left behind
    processed_df,       \* the copy of the table with its three appended columns
    slept               \* seconds of rate limiting slept by process_dataframe

\* The locals of analyze_news and _call_ollama
analysis_vars ==
    <<pc, article, news_text, calls, attempt, log, elapsed, category_response,
      sentiment_response, norm, result>>

\* The locals of process_dataframe
batch_vars == <<batch, df, idx, processed_df, slept>>

vars ==
    <<pc, article, news_text, calls, attempt, log, elapsed, category_response,
      sentiment_response, norm, result, batch, df, idx, processed_df, slept>>

\* No process_dataframe is running.
NoBatch ==
    /\ batch = "none"
    /\ df = <<>>
    /\ idx = 0
    /\ processed_df = <<>>
    /\ slept = 0

\* How one request can fail: requests.post raises, or raise_for_status does.  The
\* except clause treats all alike, so the log keeps only that the request failed.
Failures == {"network", "status", "timeout"}

\* _call_ollama returned None
NoResponse == [ok |-> FALSE, response |-> <<>>]

\* response.json(): the service's reply object, whose response field holds the text
Body(text) == [ok |-> TRUE, response |-> text]

\* One request of the log, with what it gave (NoResponse when it failed), and one
\* sleep of d seconds.
Post(reply) == [ev |-> "post", reply |-> reply, d |-> 0]

Sleep(d) == [ev |-> "sleep", reply |-> NoResponse, d |-> d]

NotNormalized ==
    [done |-> FALSE, category_raw |-> <<>>, sentiment_raw |-> <<>>,
     category |-> "", cat_confidence |-> 0, sentiment |-> "", sent_confidence |-> 0]

NoResult ==
    [returned |-> FALSE, category |-> "", sentiment |-> "", success |-> FALSE,
     raw_response |-> "", processing_time |-> 0, confidence_score |-> 0]

NewsAnalysis(category, sentiment, success, raw_response, processing_time, confidence_score) ==
    [returned |-> TRUE, category |-> category, sentiment |-> sentiment,
     success |-> success, raw_response |-> raw_response,
     processing_time |-> processing_time, confidence_score |-> confidence_score]

\* _generate_classification_prompt and _generate_sentiment_prompt
Prompt(kind, text) == [kind |-> kind, text |-> text]

\* 2 ** attempt
RECURSIVE Pow2(_)
Pow2(n) == IF n = 0 THEN 1 ELSE 2 * Pow2(n - 1)

\* A backoff that does not grow.
backoff_constant(a) == RETRY_DELAY

\* time.sleep(config.RETRY_DELAY * (2 ** attempt))
backoff(a) == RETRY_DELAY * Pow2(a)

\* The emptiness test on the text as given, not stripped.
is_empty_unstripped(text) == text = <<>>

\* if not news_text, on the stripped text
is_empty(text) == strip(text) = <<>>

\* if category_response and sentiment_response
both_responded(cr, sr) == cr.ok /\ sr.ok

\* The locals once both normalizers have returned c and s.
Normalized(category_raw, sentiment_raw, c, s) ==
    [done |-> TRUE, category_raw |-> category_raw, sentiment_raw |-> sentiment_raw,
     category |-> c.label, cat_confidence |-> c.conf,
     sentiment |-> s.label, sent_confidence |-> s.conf]

\* category, cat_confidence = self._normalize_category(category_raw)
\* sentiment, sent_confidence = self._normalize_sentiment(sentiment_raw)
normalize_raw(category_raw, sentiment_raw) ==
    Normalized(category_raw, sentiment_raw,
               _normalize_category(category_raw), _normalize_sentiment(sentiment_raw))

\* The locals of the branch that normalizes both replies, if it is taken.
normalize_both(cr, sr) ==
    IF both_responded(cr, sr)
    THEN normalize_raw(strip(cr.response), strip(sr.response))
    ELSE NotNormalized

\* (cat_confidence + sent_confidence) / 2
average(a, b) == (a + b) \div 2

\* A strict comparison with the threshold.
meets_threshold_strict(score) == score > CONFIDENCE_THRESHOLD

\* success = confidence_score >= config.CONFIDENCE_THRESHOLD
meets_threshold(score) == score >= CONFIDENCE_THRESHOLD

\* The result analyze_news builds once both calls have returned.  raw_response is
\* "text" for the formatted diagnostic string and "None" when a call failed.
analysis(n, seconds) ==
    IF n.done
    THEN NewsAnalysis(n.category, n.sentiment,
                      meets_threshold(average(n.cat_confidence, n.sent_confidence)),
                      "text", seconds,
                      average(n.cat_confidence, n.sent_confidence))
    ELSE NewsAnalysis(OTHERS, NEUTRAL, FALSE, "None", seconds, 0)

\* The result of the empty-text branch.
empty_analysis == NewsAnalysis(OTHERS, NEUTRAL, FALSE, "Empty text", 0, 0)

Init ==
    /\ pc = "idle"
    /\ article = <<>>
    /\ news_text = <<>>
    /\ calls = <<>>
    /\ attempt = 0
    /\ log = <<>>
    /\ elapsed = 0
    /\ category_response = NoResponse
    /\ sentiment_response = NoResponse
    /\ norm = NotNormalized
    /\ result = NoResult
    /\ NoBatch

\* analyze_news on a text that strips to nothing returns at once.
AnalyzeEmpty(text) ==
    /\ pc = "idle"
    /\ is_empty(text)
    /\ article' = text
    /\ news_text' = strip(text)
    /\ calls' = <<>>
    /\ attempt' = 0
    /\ log' = <<>>
    /\ elapsed' = 0
    /\ category_response' = NoResponse
    /\ sentiment_response' = NoResponse
    /\ norm' = NotNormalized
    /\ result' = empty_analysis
    /\ pc' = "idle"

\* analyze_news on any other text builds the category prompt and enters _call_ollama.
AnalyzeStart(text) ==
    /\ pc = "idle"
    /\ ~is_empty(text)
    /\ article' = text
    /\ news_text' = strip(text)
    /\ calls' = <<Prompt("category", strip(text))>>
    /\ attempt' = 0
    /\ log' = <<>>
    /\ elapsed' = 0
    /\ category_response' = NoResponse
    /\ sentiment_response' = NoResponse
    /\ norm' = NotNormalized
    /\ result' = NoResult
    /\ pc' = "category"

\* A return that gives up on the sentiment request when the category call failed.
CallReturns_short_circuit(resp) ==
    IF pc = "category" /\ resp.ok
    THEN /\ category_response' = resp
         /\ pc' = "got_category"
         /\ UNCHANGED <<sentiment_response, norm, result>>
    ELSE IF pc = "category"
    THEN /\ category_response' = resp
         /\ sentiment_response' = NoResponse
         /\ norm' = NotNormalized
         /\ result' = analysis(NotNormalized, elapsed')
         /\ pc' = "idle"
    ELSE /\ sentiment_response' = resp
         /\ norm' = normalize_both(category_response, resp)
         /\ result' = analysis(norm', elapsed')
         /\ pc' = "idle"
         /\ UNCHANGED category_response

\* _call_ollama returns resp to analyze_news: after the category call the sentiment
\* prompt is next; after the sentiment call analyze_news runs to its return.
CallReturns(resp) ==
    IF pc = "category"
    THEN /\ category_response' = resp
         /\ pc' = "got_category"
         /\ UNCHANGED <<sentiment_response, norm, result>>
    ELSE /\ sentiment_response' = resp
         /\ norm' = normalize_both(category_response, resp)
         /\ result' = analysis(norm', elapsed')
         /\ pc' = "idle"
         /\ UNCHANGED category_response

\* A last-attempt test that is off by one, so that no attempt is the last.
last_attempt_off_by_one(a) == a = MAX_RETRIES

\* The attempt is the last one of range(MAX_RETRIES).
last_attempt(a) == a = MAX_RETRIES - 1

\* One request succeeds: return response.json().
PostSucceeds(text) ==
    /\ pc \in {"category", "sentiment"}
    /\ attempt < MAX_RETRIES
    /\ text \in (IF pc = "category" THEN CategoryReplies ELSE SentimentReplies)
    /\ log' = Append(log, Post(Body(text)))
    /\ UNCHANGED <<article, news_text, calls, attempt, elapsed>>
    /\ CallReturns(Body(text))

\* One request fails before the last attempt: sleep, then go round the loop.  A
\* loop that ends without returning falls through to the final return None.
PostFails(kind) ==
    /\ pc \in {"category", "sentiment"}
    /\ attempt < MAX_RETRIES
    /\ ~last_attempt(attempt)
    /\ log' = log \o <<Post(NoResponse), Sleep(backoff(attempt))>>
    /\ elapsed' = elapsed + backoff(attempt)
    /\ attempt' = attempt + 1
    /\ UNCHANGED <<article, news_text, calls>>
    /\ IF attempt + 1 < MAX_RETRIES
       THEN UNCHANGED <<pc, category_response, sentiment_response, norm, result>>
       ELSE CallReturns(NoResponse)

\* The last attempt fails: return None, without sleeping.
PostFailsLast(kind) ==
    /\ pc \in {"category", "sentiment"}
    /\ attempt < MAX_RETRIES
    /\ last_attempt(attempt)
    /\ log' = Append(log, Post(NoResponse))
    /\ UNCHANGED <<article, news_text, calls, attempt, elapsed>>
    /\ CallReturns(NoResponse)

\* analyze_news builds the sentiment prompt and enters _call_ollama again.
RequestSentiment ==
    /\ pc = "got_category"
    /\ calls' = Append(calls, Prompt("sentiment", news_text))
    /\ attempt' = 0
    /\ log' = <<>>
    /\ pc' = "sentiment"
    /\ UNCHANGED <<article, news_text, elapsed, category_response,
                   sentiment_response, norm, result>>

Next ==
    \/ \E text \in Articles : AnalyzeEmpty(text) /\ UNCHANGED batch_vars
    \/ \E text \in Articles : AnalyzeStart(text) /\ UNCHANGED batch_vars
    \/ \E text \in CategoryReplies \cup SentimentReplies :
            PostSucceeds(text) /\ UNCHANGED batch_vars
    \/ \E kind \in Failures : PostFails(kind) /\ UNCHANGED batch_vars
    \/ \E kind \in Failures : PostFailsLast(kind) /\ UNCHANGED batch_vars
    \/ RequestSentiment /\ UNCHANGED batch_vars

Spec == Init /\ [][Next]_vars

(***************************************************************************)
(* The normalizers on their own: every reply, unstripped, to both          *)
(***************************************************************************)
Replies == CategoryReplies \cup SentimentReplies

\* Every reply as it is and with blanks around it.
NormInputs == Replies \cup {T_pad \o r \o T_pad : r \in Replies}

NormInit ==
    /\ pc = "normalizer"
    /\ article = <<>>
    /\ news_text = <<>>
    /\ calls = <<>>
    /\ attempt = 0
    /\ log = <<>>
    /\ elapsed = 0
    /\ category_response = NoResponse
    /\ sentiment_response = NoResponse
    /\ norm = NotNormalized
    /\ result = NoResult
    /\ NoBatch

\* _normalize_category(raw) and _normalize_sentiment(raw), once
Normalize(raw) ==
    /\ pc = "normalizer"
    /\ ~norm.done
    /\ norm' = normalize_raw(raw, raw)
    /\ UNCHANGED <<pc, article, news_text, calls, attempt, log, elapsed,
                   category_response, sentiment_response, result>>

NormNext == \E raw \in NormInputs : Normalize(raw) /\ UNCHANGED batch_vars

NormSpec == NormInit /\ [][NormNext]_vars

(***************************************************************************)
(* process_dataframe: the rows of a table, one after the other             *)
(***************************************************************************)
\* The most rows a table of the model has.
MaxRows == 3

\* A missing Article, as pandas reads an empty CSV field.
NaN == [t |-> "nan", n |-> 0, s |-> <<>>]

\* The Article cells of the model: missing, blank, a text, and a number (the cell
\* of a column pandas read as numeric), which has no strip method.
Cells == {NaN, JStr(A_blanks), JStr(A_oil), JInt(5)}

\* The Article columns of every table of 0 to MaxRows rows.
Tables == UNION {[1..n -> Cells] : n \in 0..MaxRows}

\* The replies the service gives while a table is processed.
BatchReplies ==
    {T_Oil, Obj2(K_category_number, NumText(5), V_092),
     Obj2(K_sentiment_number, NumText(1), V_092)}

\* pd.isna(article)
isna(cell) == cell.t \in {"nan", "null"}

\* pd.isna(article) or not article.strip(): "raise" when the cell is not missing
\* and has no strip method (AttributeError), else "empty" or "text".
article_test(cell) ==
    IF isna(cell) THEN "empty"
    ELSE IF cell.t # "str" THEN "raise"
    ELSE IF strip(cell.s) = <<>> THEN "empty"
    ELSE "text"

\* One row of processed_df; the three appended columns hold None until the row
\* is handled.
Row(cell, category, sentiment, confidence) ==
    [Article |-> cell, Category |-> category, Sentiment |-> sentiment,
     Confidence |-> confidence]

\* The None a column holds before the row is handled, as a column value.
Unset == "None"

\* processed_df = df.copy() with Category, Sentiment and Confidence set to None
copy_with_columns(column) ==
    [i \in 1..Len(column) |-> Row(column[i], Unset, Unset, None)]

\* processed_df.at[idx, ...] = ..., for the three columns of row idx (rows are
\* numbered from 1 here, from 0 in the code).  The table is the one pd.read_csv
\* built in process_csv_file, whose index labels are the positions 0..N-1, so
\* the label .at takes names the row .iloc read.
at(rows, i, category, sentiment, confidence) ==
    [rows EXCEPT ![i] = Row(@.Article, category, sentiment, confidence)]

\* process_dataframe up to its loop, on any table
BatchInit ==
    /\ pc = "idle"
    /\ article = <<>>
    /\ news_text = <<>>
    /\ calls = <<>>
    /\ attempt = 0
    /\ log = <<>>
    /\ elapsed = 0
    /\ category_response = NoResponse
    /\ sentiment_response = NoResponse
    /\ norm = NotNormalized
    /\ result = NoResult
    /\ batch = "loop"
    /\ df \in Tables
    /\ idx = 0
    /\ processed_df = copy_with_columns(df)
    /\ slept = 0

\* The row's Article is missing or blank: UNKNOWN, and on to the next row.
EmptyArticle ==
    /\ batch = "loop"
    /\ idx < Len(df)
    /\ article_test(processed_df[idx + 1].Article) = "empty"
    /\ processed_df' = at(processed_df, idx + 1, "UNKNOWN", "NEUTRAL", JFloat(0))
    /\ idx' = idx + 1
    /\ UNCHANGED <<batch, df, slept>>
    /\ UNCHANGED analysis_vars

\* An except clause that lets the error out of process_dataframe.
RowRaises_reraise ==
    /\ batch = "loop"
    /\ idx < Len(df)
    /\ article_test(processed_df[idx + 1].Article) = "raise"
    /\ batch' = "raised"
    /\ UNCHANGED <<df, idx, processed_df, slept>>
    /\ UNCHANGED analysis_vars

\* Handling the row raises: the except clause of the loop body records ERROR, and
\* the loop goes on to the next row.
RowRaises ==
    /\ batch = "loop"
    /\ idx < Len(df)
    /\ article_test(processed_df[idx + 1].Article) = "raise"
    /\ processed_df' = at(processed_df, idx + 1, "ERROR", "NEUTRAL", JFloat(0))
    /\ idx' = idx + 1
    /\ UNCHANGED <<batch, df, slept>>
    /\ UNCHANGED analysis_vars

\* The row's Article is a text that is not blank: self.classifier.analyze_news is
\* called with it (str() of a str is that str), and takes its non-empty branch.
AnalyzeRow ==
    /\ batch = "loop"
    /\ idx < Len(df)
    /\ article_test(processed_df[idx + 1].Article) = "text"
    /\ AnalyzeStart(processed_df[idx + 1].Article.s)
    /\ batch' = "analyze"
    /\ UNCHANGED <<df, idx, processed_df, slept>>

\* analyze_news has returned: its result fills the row's columns, then
\* time.sleep(1.0) and the next row.
RecordRow ==
    /\ batch = "analyze"
    /\ pc = "idle"
    /\ result.returned
    /\ processed_df' = at(processed_df, idx + 1, result.category, result.sentiment,
                          JFloat(result.confidence_score))
    /\ slept' = slept + 1
    /\ idx' = idx + 1
    /\ batch' = "loop"
    /\ UNCHANGED df
    /\ UNCHANGED analysis_vars

\* The loop is over: return processed_df.
ReturnProcessed ==
    /\ batch = "loop"
    /\ idx = Len(df)
    /\ batch' = "returned"
    /\ UNCHANGED <<df, idx, processed_df, slept>>
    /\ UNCHANGED analysis_vars

\* A request of the analyze_news that process_dataframe called is answered.
RowPostSucceeds ==
    \E text \in BatchReplies :
        batch = "analyze" /\ PostSucceeds(text) /\ UNCHANGED batch_vars

\* Such a request fails, before the last attempt and at it.
RowPostFails ==
    \E kind \in Failures :
        batch = "analyze" /\ PostFails(kind) /\ UNCHANGED batch_vars

RowPostFailsLast ==
    \E kind \in Failures :
        batch = "analyze" /\ PostFailsLast(kind) /\ UNCHANGED batch_vars

\* That analyze_news goes on to its sentiment call.
RowRequestSentiment ==
    batch = "analyze" /\ RequestSentiment /\ UNCHANGED batch_vars

\* A request ends: with a reply, with an error, or by its timeout.
RequestEnds == RowPostFails \/ RowPostFailsLast \/ RowPostSucceeds

\* The steps of process_dataframe and of the analyze_news it calls; the service
\* answers or fails each request as it likes.
BatchNext ==
    \/ EmptyArticle
    \/ RowRaises
    \/ AnalyzeRow
    \/ RowPostSucceeds
    \/ RowPostFails
    \/ RowPostFailsLast
    \/ RowRequestSentiment
    \/ RecordRow
    \/ ReturnProcessed

\* The program is one thread that runs each statement after the other, so each
\* of its own steps is taken once it can be; and every request ends, since
\* requests.post is given a timeout.  Which way a request ends is left open.
BatchFairness ==
    /\ WF_vars(EmptyArticle)
    /\ WF_vars(RowRaises)
    /\ WF_vars(AnalyzeRow)
    /\ WF_vars(RowRequestSentiment)
    /\ WF_vars(RecordRow)
    /\ WF_vars(ReturnProcessed)
    /\ WF_vars(RequestEnds)

BatchSpec == BatchInit /\ [][BatchNext]_vars /\ BatchFairness

(***************************************************************************)
(* Properties of _call_ollama                                              *)
(***************************************************************************)
\* A _call_ollama has just returned to analyze_news.
CallDone == pc = "got_category" \/ (pc = "idle" /\ Len(calls) = 2)

\* What that call returned.
ReturnedValue == IF pc = "got_category" THEN category_response ELSE sentiment_response

\* The requests and the sleeps of the log, in order.
Posts == SelectSeq(log, LAMBDA e : e.ev = "post")

Sleeps == SelectSeq(log, LAMBDA e : e.ev = "sleep")

\* C1: when the service fails the first k < MAX_RETRIES requests of a call and
\* answers the next one, the call returns that answer after exactly k+1 requests
\* and k sleeps, the i-th sleep (i = 0..k-1) lasting RETRY_DELAY * 2^i and lying
\* between request i+1 and request i+2.
C1_RetryThenSuccess ==
    CallDone =>
        \A k \in 0..(MAX_RETRIES - 1) :
            ( /\ Len(Posts) >= k + 1
              /\ \A i \in 1..k : ~Posts[i].reply.ok
              /\ Posts[k + 1].reply.ok )
            => /\ ReturnedValue = Posts[k + 1].reply
               /\ Len(Posts) = k + 1
               /\ Len(Sleeps) = k
               /\ Len(log) = 2 * k + 1
               /\ \A i \in 0..(k - 1) :
                    /\ log[2 * i + 1].ev = "post"
                    /\ log[2 * i + 2] = Sleep(RETRY_DELAY * 2^i)
                    /\ log[2 * i + 3].ev = "post"

\* A call that returned the answer of its third request, after two failures.
C1_Witness ==
    /\ CallDone
    /\ Len(Posts) = 3
    /\ ~Posts[1].reply.ok /\ ~Posts[2].reply.ok /\ Posts[3].reply.ok
    /\ ReturnedValue = Posts[3].reply

\* C2: when every request of a call fails, the call returns None after exactly
\* MAX_RETRIES requests, with a sleep between them but none after the last.
C2_AllFail ==
    (CallDone /\ \A i \in 1..Len(Posts) : ~Posts[i].reply.ok)
    => /\ ReturnedValue = NoResponse
       /\ Len(Posts) = MAX_RETRIES
       /\ Len(Sleeps) = MAX_RETRIES - 1
       /\ log[Len(log)].ev = "post"

\* A call that returned None after MAX_RETRIES failed requests.
C2_Witness ==
    /\ CallDone
    /\ Len(Posts) = MAX_RETRIES
    /\ \A i \in 1..MAX_RETRIES : ~Posts[i].reply.ok
    /\ ReturnedValue = NoResponse

(***************************************************************************)
(* Properties of analyze_news                                              *)
(***************************************************************************)
\* The text holds nothing but whitespace.
Blank(text) == \A i \in 1..Len(text) : text[i] \in Whitespace

\* analyze_news has returned.
Done == pc = "idle" /\ result.returned

\* C3: for an empty or whitespace-only article analyze_news returns success=false,
\* others, neutral and processing_time 0.0, and _call_ollama is never invoked.
C3_EmptyArticle ==
    (pc # "normalizer" /\ Blank(article))
    => /\ pc = "idle"
       /\ calls = <<>>
       /\ log = <<>>
       /\ result.returned =>
            /\ ~result.success
            /\ result.category = "others"
            /\ result.sentiment = "neutral"
            /\ result.processing_time = 0

\* analyze_news has returned for an article of blanks only.
C3_Witness == Done /\ article = A_blanks /\ ~result.success /\ calls = <<>>

\* C4: for a non-empty article both requests are made before there is a result,
\* the sentiment request also when the category request ran out of retries; when
\* either call returned no response the result is success=false, others, neutral
\* and no reply is normalized.
C4_BothRequested ==
    /\ pc \in {"category", "got_category", "sentiment"} => ~result.returned
    /\ (Done /\ ~Blank(article)) =>
        /\ Len(calls) = 2
        /\ calls[1].kind = "category" /\ calls[2].kind = "sentiment"
        /\ log # <<>> /\ log[1].ev = "post"
        /\ (~category_response.ok \/ ~sentiment_response.ok) =>
            /\ ~result.success
            /\ result.category = "others"
            /\ result.sentiment = "neutral"
            /\ ~norm.done

\* The category call ran out of retries and the sentiment request was still made
\* and answered.
C4_Witness ==
    /\ Done
    /\ ~category_response.ok
    /\ sentiment_response.ok
    /\ Len(calls) = 2
    /\ ~result.success

\* C5: when both calls returned a response, confidence_score is the mean of the two
\* normalizers' confidences and success holds exactly when it reaches
\* CONFIDENCE_THRESHOLD; success never holds when a call returned no response.
C5_ThresholdCheck ==
    (Done /\ ~Blank(article)) =>
        /\ (category_response.ok /\ sentiment_response.ok) =>
            /\ norm.done
            /\ 2 * result.confidence_score = norm.cat_confidence + norm.sent_confidence
            /\ result.success <=> (result.confidence_score >= CONFIDENCE_THRESHOLD)
        /\ ~(category_response.ok /\ sentiment_response.ok) => ~result.success

\* A result whose confidence is exactly the threshold, and which succeeds.
C5_Witness ==
    /\ Done
    /\ category_response.ok /\ sentiment_response.ok
    /\ result.confidence_score = CONFIDENCE_THRESHOLD
    /\ result.success

\* C10: the confidence_score of every result lies in [0, 1].
C10_ConfidenceInUnitInterval ==
    Done => (0 <= result.confidence_score /\ result.confidence_score <= 1000)

(***************************************************************************)
(* Properties of the normalizers                                           *)
(***************************************************************************)
\* The reply holds a brace-delimited substring that json.loads accepts.
HasJsonObject(raw) ==
    first_match(raw).found /\ json_loads(first_match(raw).text).ok

\* The object of such a reply.
JsonObject(raw) == json_loads(first_match(raw).text).val

\* The number written by the first run of digits of the reply, -1 if there is none.
FirstNumber(raw) ==
    LET ds == {i \in 1..Len(raw) : raw[i] \in DigitChars}
    IN  IF ds = {} THEN 0 - 1
        ELSE LET p == CHOOSE i \in ds : \A j \in ds : i <= j
             IN  NatOf(SubSeq(raw, p, DigitsEnd(raw, p) - 1))

NoDigits(raw) == \A i \in 1..Len(raw) : raw[i] \notin DigitChars

\* The rows of the keyword table whose key the lower-cased reply contains.
KeywordRows(raw) ==
    {i \in 1..Len(category_mapping) : Contains(lower(raw), category_mapping[i].key)}

NoSentimentKeyword(raw) ==
    \A word \in positive_words \cup negative_words : ~Contains(lower(raw), word)

\* C6, as claimed: for a reply with no JSON object whose first run of digits is a
\* number n in 1..9, _normalize_category returns the n-th category, whatever
\* keyword the reply holds.
C6_BareDigitWins ==
    (norm.done /\ ~HasJsonObject(norm.category_raw)
               /\ FirstNumber(norm.category_raw) \in 1..9)
    => norm.category = NewsCategory[FirstNumber(norm.category_raw)]

\* C6, amended: for such a reply the digits are not read; the first row of the
\* keyword table whose key the lower-cased reply contains gives the category, with
\* confidence 0.8, and a reply with no keyword gives others with confidence 0.5.
C6_KeywordDecides ==
    (norm.done /\ ~HasJsonObject(norm.category_raw)
               /\ FirstNumber(norm.category_raw) \in 1..9)
    => IF KeywordRows(norm.category_raw) = {}
       THEN norm.category = "others" /\ norm.cat_confidence = 500
       ELSE \E i \in KeywordRows(norm.category_raw) :
                /\ \A j \in KeywordRows(norm.category_raw) : i <= j
                /\ norm.category = category_mapping[i].category
                /\ norm.cat_confidence = 800

\* "5. Discussing oil and gas markets" was normalized to oil_and_gas.
C6_Witness ==
    /\ norm.done
    /\ norm.category_raw = T_discussing
    /\ norm.category = "oil_and_gas"
    /\ norm.cat_confidence = 800

\* C7, as claimed: a reply with no digit and no keyword gives others with
\* confidence 0.0, and neutral with confidence 0.6.
C7_TerminalFallbackZero ==
    norm.done =>
        /\ (NoDigits(norm.category_raw) /\ KeywordRows(norm.category_raw) = {})
            => (norm.category = "others" /\ norm.cat_confidence = 0)
        /\ (NoDigits(norm.sentiment_raw) /\ NoSentimentKeyword(norm.sentiment_raw))
            => (norm.sentiment = "neutral" /\ norm.sent_confidence = 600)

\* C7, amended: a reply with no digit, no keyword and no JSON object gives others
\* with confidence 0.5, and neutral with confidence 0.6.
C7_TerminalFallback ==
    norm.done =>
        /\ ( /\ NoDigits(norm.category_raw)
             /\ KeywordRows(norm.category_raw) = {}
             /\ ~HasJsonObject(norm.category_raw) )
            => (norm.category = "others" /\ norm.cat_confidence = 500)
        /\ ( /\ NoDigits(norm.sentiment_raw)
             /\ NoSentimentKeyword(norm.sentiment_raw)
             /\ ~HasJsonObject(norm.sentiment_raw) )
            => (norm.sentiment = "neutral" /\ norm.sent_confidence = 600)

\* "I am not sure" was normalized by both normalizers.
C7_Witness ==
    /\ norm.done
    /\ norm.category_raw = T_unclear /\ norm.sentiment_raw = T_unclear
    /\ norm.category = "others" /\ norm.cat_confidence = 500
    /\ norm.sentiment = "neutral" /\ norm.sent_confidence = 600

\* The reply's object gives category_number as an integer in 1..9.
HasOrdinal(raw) ==
    /\ HasJsonObject(raw)
    /\ K_category_number \in DOMAIN JsonObject(raw)
    /\ JsonObject(raw)[K_category_number].t = "int"
    /\ JsonObject(raw)[K_category_number].n \in 1..9

\* The object has a confidence that float() cannot convert.
BadConfidence(raw) ==
    /\ K_confidence \in DOMAIN JsonObject(raw)
    /\ float(JsonObject(raw)[K_confidence]).exc

\* The object's confidence as a float, 0 when the object has none.
ConfidenceOf(raw) ==
    IF K_confidence \in DOMAIN JsonObject(raw)
    THEN float(JsonObject(raw)[K_confidence]).val
    ELSE 0

\* C8, as claimed: a reply whose object gives category_number n in 1..9 yields the
\* n-th category with the object's confidence, which is 0 when the field is absent
\* or cannot be parsed.
C8_JsonOrdinalAlways ==
    (norm.done /\ HasOrdinal(norm.category_raw))
    => /\ norm.category = NewsCategory[JsonObject(norm.category_raw)[K_category_number].n]
       /\ norm.cat_confidence = IF BadConfidence(norm.category_raw) THEN 0
                                ELSE ConfidenceOf(norm.category_raw)

\* C8, amended: such a reply yields the n-th category with the object's confidence,
\* 0 when the field is absent; when the field is there and float() cannot convert
\* it, the reply yields others with confidence 0.0.
C8_JsonOrdinal ==
    (norm.done /\ HasOrdinal(norm.category_raw))
    => IF BadConfidence(norm.category_raw)
       THEN norm.category = "others" /\ norm.cat_confidence = 0
       ELSE /\ norm.category =
                 NewsCategory[JsonObject(norm.category_raw)[K_category_number].n]
            /\ norm.cat_confidence = ConfidenceOf(norm.category_raw)

\* {"category_number": 5, "confidence": 0.92} was normalized to the 5th category
\* with confidence 0.92.
C8_Witness ==
    /\ norm.done
    /\ norm.category_raw = Obj2(K_category_number, NumText(5), V_092)
    /\ norm.category = NewsCategory[5]
    /\ norm.cat_confidence = 920

\* C9: the normalizers return for every reply; the label is one of the 9 category
\* labels, resp. the 3 sentiment labels, and when the try block raises the result
\* is (others, 0.0), resp. (neutral, 0.0).
C9_Total ==
    norm.done =>
        /\ \E i \in 1..Len(NewsCategory) : norm.category = NewsCategory[i]
        /\ \E i \in 1..Len(SentimentType) : norm.sentiment = SentimentType[i]
        /\ normalize_category_try(norm.category_raw).exc
            => (norm.category = "others" /\ norm.cat_confidence = 0)
        /\ normalize_sentiment_try(norm.sentiment_raw).exc
            => (norm.sentiment = "neutral" /\ norm.sent_confidence = 0)

\* A reply whose confidence is no number made both try blocks raise.
C9_Witness ==
    /\ norm.done
    /\ norm.category_raw = Obj1(K_confidence, V_high)
    /\ normalize_category_try(norm.category_raw).exc
    /\ normalize_sentiment_try(norm.sentiment_raw).exc
    /\ norm.category = "others" /\ norm.cat_confidence = 0
    /\ norm.sentiment = "neutral" /\ norm.sent_confidence = 0

(***************************************************************************)
(* Properties of process_dataframe                                         *)
(***************************************************************************)
\* The values a handled row's Category can hold: the 9 labels and the sentinels.
CategoryValues == {NewsCategory[i] : i \in 1..Len(NewsCategory)} \cup {"UNKNOWN", "ERROR"}

\* The cell is missing or a text of blanks only.
BlankArticle(cell) == isna(cell) \/ (cell.t = "str" /\ strip(cell.s) = <<>>)

\* The rows before idx are handled and the rows from idx on are untouched; the
\* article being analyzed is that of row idx; the table keeps its rows in order.
RowsInOrder ==
    /\ batch \in {"loop", "analyze", "returned"}
    /\ Len(processed_df) = Len(df)
    /\ idx <= Len(df)
    /\ batch = "returned" => idx = Len(df)
    /\ batch = "analyze" =>
        /\ idx < Len(df)
        /\ df[idx + 1].t = "str"
        /\ article = df[idx + 1].s
    /\ \A i \in 1..Len(df) :
        /\ processed_df[i].Article = df[i]
        /\ i <= idx =>
            /\ processed_df[i].Category \in CategoryValues
            /\ BlankArticle(df[i]) => processed_df[i].Category = "UNKNOWN"
        /\ i > idx =>
            /\ processed_df[i].Category = Unset
            /\ processed_df[i].Sentiment = Unset
            /\ processed_df[i].Confidence = None

\* C11: on every table and under every pattern of failing requests,
\* process_dataframe handles the rows one at a time in input order and returns;
\* every row it has handled holds one of the 9 category labels, UNKNOWN or ERROR,
\* a row with a blank Article holds UNKNOWN, and a row whose handling raised or
\* whose requests all failed is followed by the handling of the next row.
C11_EveryRowHandled == []RowsInOrder /\ <>(batch = "returned")

\* A table of three rows was returned: handling the first raised (ERROR), the
\* second has a blank Article (UNKNOWN), and every request for the third failed.
C11_Witness ==
    /\ batch = "returned"
    /\ Len(df) = 3
    /\ article_test(df[1]) = "raise" /\ processed_df[1].Category = "ERROR"
    /\ BlankArticle(df[2]) /\ processed_df[2].Category = "UNKNOWN"
    /\ article_test(df[3]) = "text"
    /\ Len(calls) = 2
    /\ ~category_response.ok /\ ~sentiment_response.ok
    /\ processed_df[3].Category = OTHERS

=============================================================================
